---- MODULE Spec2Model ----
(***************************************************************************)
(* Identical Code Folding (src/ELF/ICF.cpp) as a state machine.            *)
(*                                                                         *)
(* The input of a run is a vector of input sections (Symtab::X->Sections)  *)
(* and the symbols their relocations refer to.  The state is the ICF       *)
(* object (Sections, Ranges, Mu, NextId, Cnt), the per-section GroupId and *)
(* Repl slots, the position of run() and the position of every segregate   *)
(* task of the current sweep.                                              *)
(*                                                                         *)
(* Indices into Sections and Ranges are 0-based as in the code; the TLA+   *)
(* sequences holding them are 1-based, hence the +1 in At and RangeAt.     *)
(***************************************************************************)
EXTENDS Integers, Sequences, FiniteSets, TLC

\* ------------------------------------------------------------------ bounds

\* Number of input sections of the link.
NumSecs == 4

\* Number of idle iterations of the range scan that are taken one by one
\* before the remaining ones (which only advance I) are taken in one step.
MaxIdle == 2

\* ------------------------------------------------------- program constants

SHF_WRITE == 1
SHF_ALLOC == 2
SHF_EXECINSTR == 4

\* A uint32_t is kept as <<bit 31, bits 30..0>>.
Low31Max == 2147483647

Zero32 == <<0, 0>>

\* The hash taken as the id without setting the high bit.
SetMSB_None(x) == x

\* x | (1 << 31)
SetMSB(x) == <<1, x[2]>>

\* x + 1 in uint32_t
Inc32(x) ==
  IF x[2] < Low31Max THEN <<x[1], x[2] + 1>>
  ELSE IF x[1] = 0 THEN <<1, 0>>
  ELSE Zero32

\* a < b in uint32_t
Less32(a, b) == a[1] < b[1] \/ (a[1] = b[1] /\ a[2] < b[2])

\* A size_t is kept in two's complement: -1 is SIZE_MAX, the value of 0 - 1.
SizeSub1(e) == e - 1

\* a < b in size_t
SizeLess(a, b) == IF (a < 0) = (b < 0) THEN a < b ELSE b < 0

SecIds == 1 .. NumSecs

HasFlag(flags, bit) == (flags \div bit) % 2 = 1

\* ------------------------------------------------------------------ input

\* Symbols.  A symbol is identified by its name (the symbol object); Section
\* is the input section a DefinedRegular points into, 0 for the null pointer
\* of an absolute symbol.
DefSym(name, value, sec) ==
  [name |-> name, kind |-> "DefinedRegular", Value |-> value, Section |-> sec]

UndefSym(name) ==
  [name |-> name, kind |-> "Undefined", Value |-> 0, Section |-> 0]

\* The symbol at offset 0 of section s.
SecSym(s) == DefSym(<<"sec", s>>, 0, s)

\* A second symbol object at offset 0 of section 1, one at another offset,
\* an undefined symbol and an absolute symbol.
Alias1 == DefSym(<<"alias", 1>>, 0, 1)
Off1 == DefSym(<<"off", 1>>, 8, 1)
Undef == UndefSym(<<"undef", 0>>)
Abs0 == DefSym(<<"abs", 0>>, 0, 0)

Reloc(offset, type, addend, sym) ==
  [r_offset |-> offset, type |-> type, addend |-> addend, sym |-> sym]

Sec(name, live, flags, kind, data, align, relocs) ==
  [Name |-> name, Live |-> live, Flags |-> flags, Kind |-> kind,
   Data |-> data, Alignment |-> align, Relocs |-> relocs]

TextFlags == SHF_ALLOC + SHF_EXECINSTR

Plain == Sec(".text", TRUE, TextFlags, "Regular", <<144>>, 4, <<>>)
Align16 == [Plain EXCEPT !.Alignment = 16]
Data1 == [Plain EXCEPT !.Data = <<195>>]
Flags2 == [Plain EXCEPT !.Flags = SHF_ALLOC]
Size2 == [Plain EXCEPT !.Data = <<144, 144>>]
Writable == [Plain EXCEPT !.Flags = SHF_ALLOC + SHF_WRITE]
Dead == [Plain EXCEPT !.Live = FALSE]
InitSec == [Plain EXCEPT !.Name = ".init"]
FiniSec == [Plain EXCEPT !.Name = ".fini"]
NonAlloc == [Plain EXCEPT !.Flags = SHF_EXECINSTR]
MergeSec == [Plain EXCEPT !.Kind = "Merge"]

Next1(s) == (s % NumSecs) + 1
Prev1(s) == ((s + NumSecs - 2) % NumSecs) + 1

WithReloc(shape, r) == [shape EXCEPT !.Relocs = <<r>>]

\* Family 1: eligibility.  Every way of being ineligible, next to plain
\* sections; the inputs with no and with one eligible section are here.
EligShapes(s) ==
  {Plain, Writable, Dead, InitSec, NonAlloc}
    \cup (IF s = 1 THEN {FiniSec, MergeSec} ELSE {})

\* Family 2: constants.  Sections without relocations that differ in data,
\* flags, size or alignment.
ContentShapes(s) == {Plain, Align16, Data1, Flags2, Size2}

\* Family 3: cycles.  Every section calls a neighbour; two kinds of body.
CycleShapes(s) ==
  {WithReloc(d, Reloc(0, 1, 0, SecSym(t))) :
     d \in {Plain, Data1}, t \in {Next1(s), Prev1(s)}}

\* Family 4: symbol kinds.  Section 1 is the target (eligible or writable);
\* the others refer to it through symbols of every kind.
SymShapes(s) ==
  IF s = 1 THEN {Plain, Writable}
  ELSE {WithReloc(Plain, Reloc(0, 1, 0, y)) :
          y \in {SecSym(1), Alias1, Off1, Undef, Abs0}}

\* Family 5: relocation constants, rela form (explicit addends).
RelaShapes(s) ==
  {WithReloc(Plain, Reloc(o, ty, a, SecSym(1))) :
     <<o, ty, a>> \in {<<0, 1, 0>>, <<0, 1, 4>>, <<4, 1, 0>>, <<0, 2, 0>>}}

\* Family 6: relocation constants, rel form (getAddend yields 0).
RelShapes(s) ==
  {WithReloc(Plain, Reloc(o, ty, 0, SecSym(1))) :
     <<o, ty>> \in {<<0, 1>>, <<4, 1>>, <<0, 2>>}}

\* Family 7: relocation counts.  Two shapes that differ in size and in the
\* number of relocations and have the same hash (the hash function combines
\* flags, size and count, and may collide).
Flags2Size2 == [Flags2 EXCEPT !.Data = <<144, 144>>]
Flags2Calls2 ==
  [Flags2 EXCEPT !.Relocs = <<Reloc(0, 1, 0, SecSym(1)),
                              Reloc(4, 1, 0, SecSym(1))>>]
CountShapes(s) == {Flags2Size2, Flags2Calls2}

\* The inputs of a family: shapes[s] are the shapes section s may take.
Inputs(shapes) == {f \in [SecIds -> UNION {shapes[s] : s \in SecIds}] :
                     \A s \in SecIds : f[s] \in shapes[s]}

\* ---------------------------------------------------------------- state

VARIABLES
  secs,       \* the input sections (constant fields), SecIds -> record
  rela,       \* AreRelocsRela of the link's sections
  threads,    \* Config->Threads
  GroupId,    \* SecIds -> [0..1 -> uint32]
  Repl,       \* SecIds -> SecIds, the replaceable slot
  Sections,   \* ICF::Sections
  Ranges,     \* ICF::Ranges
  Mu,         \* ICF::Mu: 0 when free, else the task holding it (task + 1)
  NextId,     \* ICF::NextId
  Cnt,        \* ICF::Cnt
  pc,         \* position of run()
  I,          \* the index I of the range scan / of the merge loop
  End,        \* the iterator End of the current sweep (an index in Ranges)
  tasks,      \* the segregate calls of the current sweep, by range index
  run         \* 1 in the first call of doIcf, 2 in a second one

vars == <<secs, rela, threads, GroupId, Repl, Sections, Ranges, Mu, NextId,
          Cnt, pc, I, End, tasks, run>>

\* ------------------------------------------------------- pure functions

At(S, k) == S[k + 1]

NumRelocations(s) == Len(secs[s].Relocs)

getSize(s) == Len(secs[s].Data)

\* Range of the model's hash function before the high bit is set.
HashMod == 3

\* llvm::hash_combine: a deterministic function of its arguments under which
\* different arguments may collide.
hash_combine(flags, size, nrel) ==
  <<0, (flags * 4 + size * 2 + nrel) % HashMod>>

\* getHash over the section itself instead of over its constants.
getHash_BySection(s) == <<0, s % HashMod>>

getHash(s) == hash_combine(secs[s].Flags, getSize(s), NumRelocations(s))

\* isEligible without the test of SHF_WRITE.
isEligible_NoWrite(s) ==
  /\ secs[s].Live
  /\ HasFlag(secs[s].Flags, SHF_ALLOC)
  /\ secs[s].Name # ".init"
  /\ secs[s].Name # ".fini"

isEligible(s) ==
  /\ secs[s].Live
  /\ HasFlag(secs[s].Flags, SHF_ALLOC)
  /\ ~HasFlag(secs[s].Flags, SHF_WRITE)
  /\ secs[s].Name # ".init"
  /\ secs[s].Name # ".fini"

\* getAddend: the explicit addend of a rela relocation, 0 for a rel one.
getAddend(r) == IF rela THEN r.addend ELSE 0

\* constantEqRel without the comparison of the addends.
constantEqRel_NoAddend(ra, rb) ==
  /\ ra.r_offset = rb.r_offset
  /\ ra.type = rb.type

constantEqRel(ra, rb) ==
  /\ ra.r_offset = rb.r_offset
  /\ ra.type = rb.type
  /\ getAddend(ra) = getAddend(rb)

constantEq(RelsA, RelsB) ==
  /\ Len(RelsA) = Len(RelsB)
  /\ \A i \in 1 .. Len(RelsA) : constantEqRel(RelsA[i], RelsB[i])

equalsConstant(a, b) ==
  IF \/ NumRelocations(a) # NumRelocations(b)
     \/ secs[a].Flags # secs[b].Flags
     \/ getSize(a) # getSize(b)
     \/ secs[a].Data # secs[b].Data
  THEN FALSE
  ELSE constantEq(secs[a].Relocs, secs[b].Relocs)

\* DefinedRegular::Section is a reference to the Repl slot of the section
\* the symbol was created in (Symbols.h:218); 0 is the null pointer.
SymSection(sym) == IF sym.Section = 0 THEN 0 ELSE Repl[sym.Section]

\* The slot of the single-thread case used whether or not there are threads.
ReadIdx_Next == (Cnt + 1) % 2

\* The two cases exchanged: the write slot with threads, the read slot without.
ReadIdx_Swapped == (IF threads THEN Cnt + 1 ELSE Cnt) % 2

\* The slot the variable predicate compares (ICF.cpp:245).
ReadIdx == (IF threads THEN Cnt ELSE Cnt + 1) % 2

\* variableEqRel without the comparison of the symbols' values.
variableEqRel_NoValue(ra, rb) ==
  LET SA == ra.sym
      SB == rb.sym
      X == SymSection(SA)
      Y == SymSection(SB)
  IN  IF SA = SB THEN "true"
      ELSE IF SA.kind # "DefinedRegular" \/ SB.kind # "DefinedRegular"
        THEN "false"
      ELSE IF X = 0 \/ Y = 0 THEN "null"
      ELSE IF secs[X].Kind # "Regular" \/ secs[Y].Kind # "Regular"
        THEN "false"
      ELSE IF GroupId[X][Cnt % 2] = Zero32 THEN "false"
      ELSE IF GroupId[X][ReadIdx] = GroupId[Y][ReadIdx] THEN "true"
      ELSE "false"

\* variableEqRel with the two sections compared instead of their class ids.
variableEqRel_SameSection(ra, rb) ==
  LET SA == ra.sym
      SB == rb.sym
      X == SymSection(SA)
      Y == SymSection(SB)
  IN  IF SA = SB THEN "true"
      ELSE IF SA.kind # "DefinedRegular" \/ SB.kind # "DefinedRegular"
        THEN "false"
      ELSE IF SA.Value # SB.Value THEN "false"
      ELSE IF X = 0 \/ Y = 0 THEN "null"
      ELSE IF secs[X].Kind # "Regular" \/ secs[Y].Kind # "Regular"
        THEN "false"
      ELSE IF GroupId[X][Cnt % 2] = Zero32 THEN "false"
      ELSE IF X = Y THEN "true"
      ELSE "false"

\* variableEqRel without the test of class id 0 (ICF.cpp:237-238).
variableEqRel_NoZero(ra, rb) ==
  LET SA == ra.sym
      SB == rb.sym
      X == SymSection(SA)
      Y == SymSection(SB)
  IN  IF SA = SB THEN "true"
      ELSE IF SA.kind # "DefinedRegular" \/ SB.kind # "DefinedRegular"
        THEN "false"
      ELSE IF SA.Value # SB.Value THEN "false"
      ELSE IF X = 0 \/ Y = 0 THEN "null"
      ELSE IF secs[X].Kind # "Regular" \/ secs[Y].Kind # "Regular"
        THEN "false"
      ELSE IF GroupId[X][ReadIdx] = GroupId[Y][ReadIdx] THEN "true"
      ELSE "false"

\* The lambda Eq of variableEq on one pair of relocations.  The result is
\* "true", "false" or, when dyn_cast is applied to the null section pointer
\* of an absolute symbol, "null": llvm::dyn_cast requires a non-null
\* argument (it asserts, and without assertions reads through the pointer).
variableEqRel(ra, rb) ==
  LET SA == ra.sym
      SB == rb.sym
      X == SymSection(SA)
      Y == SymSection(SB)
  IN  IF SA = SB THEN "true"
      ELSE IF SA.kind # "DefinedRegular" \/ SB.kind # "DefinedRegular"
        THEN "false"
      ELSE IF SA.Value # SB.Value THEN "false"
      ELSE IF X = 0 \/ Y = 0 THEN "null"
      ELSE IF secs[X].Kind # "Regular" \/ secs[Y].Kind # "Regular"
        THEN "false"
      ELSE IF GroupId[X][Cnt % 2] = Zero32 THEN "false"
      ELSE IF GroupId[X][ReadIdx] = GroupId[Y][ReadIdx] THEN "true"
      ELSE "false"

\* std::equal(RelsA.begin(), RelsA.end(), RelsB.begin(), Eq) from pair i on:
\* it stops at the first unequal pair; a pair past the end of RelsB is a read
\* out of bounds ("oob").
RECURSIVE variableEqFrom(_, _, _)
variableEqFrom(RelsA, RelsB, i) ==
  IF i > Len(RelsA) THEN "true"
  ELSE IF i > Len(RelsB) THEN "oob"
  ELSE LET r == variableEqRel(RelsA[i], RelsB[i])
       IN  IF r = "true" THEN variableEqFrom(RelsA, RelsB, i + 1) ELSE r

variableEq(a, b) == variableEqFrom(secs[a].Relocs, secs[b].Relocs, 1)

equalsVariable(a, b) == variableEq(a, b)

\* The predicate with the flag Constant ignored: always equalsVariable.
Pred_AlwaysVariable(Constant, pivot, s) == equalsVariable(pivot, s)

\* The predicate of the partition step (ICF.cpp:140-144).
Pred(Constant, pivot, s) ==
  IF Constant
  THEN (IF equalsConstant(pivot, s) THEN "true" ELSE "false")
  ELSE equalsVariable(pivot, s)

\* An unstable partition: the elements for which the predicate fails end up
\* in reverse order.
StablePartition_Reversed(S, lo, hi, yesSet) ==
  LET mid == SubSeq(S, lo + 1, hi)
      yes == SelectSeq(mid, LAMBDA x : x \in yesSet)
      no == SelectSeq(mid, LAMBDA x : x \notin yesSet)
      rev == [k \in 1 .. Len(no) |-> no[Len(no) + 1 - k]]
  IN  [seq |-> SubSeq(S, 1, lo) \o yes \o rev \o SubSeq(S, hi + 1, Len(S)),
       bound |-> lo + Len(yes)]

\* std::stable_partition of S[lo, hi): the elements for which the predicate
\* holds (yesSet) first, both groups in their former order.
StablePartition(S, lo, hi, yesSet) ==
  LET mid == SubSeq(S, lo + 1, hi)
      yes == SelectSeq(mid, LAMBDA x : x \in yesSet)
      no == SelectSeq(mid, LAMBDA x : x \notin yesSet)
  IN  [seq |-> SubSeq(S, 1, lo) \o yes \o no \o SubSeq(S, hi + 1, Len(S)),
       bound |-> lo + Len(yes)]

\* The comparator without the tie-break on the alignment.
SortLess_NoAlign(a, b) ==
  IF GroupId[a][0] # GroupId[b][0]
  THEN Less32(GroupId[a][0], GroupId[b][0])
  ELSE FALSE

\* The comparator with the keys in the other order: alignment first, then id.
SortLess_AlignFirst(a, b) ==
  IF secs[a].Alignment # secs[b].Alignment
  THEN secs[b].Alignment < secs[a].Alignment
  ELSE Less32(GroupId[a][0], GroupId[b][0])

\* The comparator of the initial sort (ICF.cpp:287-293).
SortLess(a, b) ==
  IF GroupId[a][0] # GroupId[b][0]
  THEN Less32(GroupId[a][0], GroupId[b][0])
  ELSE secs[b].Alignment < secs[a].Alignment

\* An unstable sort: x is inserted before the first element that is not less
\* than x, so equal elements end up in reverse order.
RECURSIVE InsertSorted_Unstable(_, _)
InsertSorted_Unstable(seq, x) ==
  IF seq = <<>> THEN <<x>>
  ELSE IF ~SortLess(Head(seq), x) THEN <<x>> \o seq
  ELSE <<Head(seq)>> \o InsertSorted_Unstable(Tail(seq), x)

\* std::stable_sort: x is inserted before the first element it is less than.
RECURSIVE InsertSorted(_, _)
InsertSorted(seq, x) ==
  IF seq = <<>> THEN <<x>>
  ELSE IF SortLess(x, Head(seq)) THEN <<x>> \o seq
  ELSE <<Head(seq)>> \o InsertSorted(Tail(seq), x)

\* No sort: the sections stay in input order.
StableSort_None(seq) == seq

RECURSIVE StableSort(_)
StableSort(seq) ==
  IF seq = <<>> THEN <<>>
  ELSE InsertSorted(StableSort(SubSeq(seq, 1, Len(seq) - 1)), seq[Len(seq)])

\* ---------------------------------------------------------- initial state

NoTasks == [t \in {} |-> 0]

\* A link: the input of a family, with or without threads.  GroupId starts
\* at {0, 0} and Repl at the section itself; the ICF object is fresh.
InitWith(shapes, isRela) ==
  /\ secs \in Inputs(shapes)
  /\ rela = isRela
  /\ threads \in BOOLEAN
  /\ GroupId = [s \in SecIds |-> [k \in 0 .. 1 |-> Zero32]]
  /\ Repl = [s \in SecIds |-> s]
  /\ Sections = <<>>
  /\ Ranges = <<>>
  /\ Mu = 0
  /\ NextId = Inc32(Zero32)
  /\ Cnt = 0
  /\ pc = "collect"
  /\ I = 0
  /\ End = 0
  /\ tasks = NoTasks
  /\ run = 1

Init ==
  \/ InitWith([s \in SecIds |-> EligShapes(s)], TRUE)
  \/ InitWith([s \in SecIds |-> ContentShapes(s)], TRUE)
  \/ InitWith([s \in SecIds |-> CycleShapes(s)], TRUE)
  \/ InitWith([s \in SecIds |-> SymShapes(s)], TRUE)
  \/ InitWith([s \in SecIds |-> RelaShapes(s)], TRUE)
  \/ InitWith([s \in SecIds |-> RelShapes(s)], FALSE)
  \/ InitWith([s \in SecIds |-> CountShapes(s)], TRUE)

\* ------------------------------------------------------------- run()

\* ICF.cpp:272-275: the eligible InputSections, in input order.
Collect ==
  /\ pc = "collect"
  /\ Sections' = SelectSeq([s \in SecIds |-> s],
                           LAMBDA s : secs[s].Kind = "Regular" /\ isEligible(s))
  /\ pc' = "hash"
  /\ UNCHANGED <<secs, rela, threads, GroupId, Repl, Ranges, Mu, NextId, Cnt,
                 I, End, tasks, run>>

InSections(s) == \E k \in 1 .. Len(Sections) : Sections[k] = s

\* The hash loop run over every input section instead of over Sections.
InitHash_All ==
  /\ pc = "hash"
  /\ GroupId' = [s \in SecIds |-> [k \in 0 .. 1 |-> SetMSB(getHash(s))]]
  /\ pc' = "sort"
  /\ UNCHANGED <<secs, rela, threads, Repl, Sections, Ranges, Mu, NextId, Cnt,
                 I, End, tasks, run>>

\* ICF.cpp:280-282: both slots get the hash with the high bit set.
InitHash ==
  /\ pc = "hash"
  /\ GroupId' = [s \in SecIds |->
                   IF InSections(s)
                   THEN [k \in 0 .. 1 |-> SetMSB(getHash(s))]
                   ELSE GroupId[s]]
  /\ pc' = "sort"
  /\ UNCHANGED <<secs, rela, threads, Repl, Sections, Ranges, Mu, NextId, Cnt,
                 I, End, tasks, run>>

\* ICF.cpp:286-293, and the initialisation of the scan (ICF.cpp:299-300).
Sort ==
  /\ pc = "sort"
  /\ Sections' = StableSort(Sections)
  /\ I' = 0
  /\ pc' = "scan"
  /\ UNCHANGED <<secs, rela, threads, GroupId, Repl, Ranges, Mu, NextId, Cnt,
                 End, tasks, run>>

\* E - 1 in size_t.
ScanLimit == SizeSub1(Len(Sections))

\* The first index J > i whose element has another id (ICF.cpp:302-304).
RECURSIVE ScanJ(_, _)
ScanJ(i, j) ==
  IF j < Len(Sections)
     /\ GroupId[At(Sections, i)][0] = GroupId[At(Sections, j)][0]
  THEN ScanJ(i, j + 1)
  ELSE j

\* The scan loop pushing every run, also a run of one section.
ScanStep_Single ==
  /\ pc = "scan"
  /\ SizeLess(I, ScanLimit)
  /\ I < Len(Sections)
  /\ LET J == ScanJ(I, I + 1)
     IN  /\ Ranges' = IF J - I > 0
                      THEN Append(Ranges, [Begin |-> I, End |-> J])
                      ELSE Ranges
         /\ I' = J
  /\ UNCHANGED <<secs, rela, threads, GroupId, Repl, Sections, Mu, NextId,
                 Cnt, pc, End, tasks, run>>

\* One iteration of the scan loop (ICF.cpp:300-308) that starts at a section.
ScanStep ==
  /\ pc = "scan"
  /\ SizeLess(I, ScanLimit)
  /\ I < Len(Sections)
  /\ LET J == ScanJ(I, I + 1)
     IN  /\ Ranges' = IF J - I > 1
                      THEN Append(Ranges, [Begin |-> I, End |-> J])
                      ELSE Ranges
         /\ I' = J
  /\ UNCHANGED <<secs, rela, threads, GroupId, Repl, Sections, Mu, NextId,
                 Cnt, pc, End, tasks, run>>

\* An iteration whose I is not below E: J = I + 1 fails J < E at once, no
\* range is pushed and I becomes J.  After MaxIdle iterations the rest of
\* them, up to I = E - 1 (in size_t), are taken as one step.
ScanIdle ==
  /\ pc = "scan"
  /\ SizeLess(I, ScanLimit)
  /\ I >= Len(Sections)
  /\ I' = IF I < MaxIdle THEN I + 1 ELSE ScanLimit
  /\ UNCHANGED <<secs, rela, threads, GroupId, Repl, Sections, Ranges, Mu,
                 NextId, Cnt, pc, End, tasks, run>>

\* ---------------------------------------------------------- segregate

NewTask(r) ==
  [pc |-> "loop", R |-> r, Begin |-> 0, End |-> 0, Mid |-> 0, Id |-> Zero32,
   NewRange |-> 0, I |-> 0]

RangeAt(r) == Ranges[r + 1]

\* foreach(Ranges.begin(), End, segregate): one call per range that exists
\* when the sweep starts (ICF.cpp:319-320, 326-327).
StartTasks(n) == [t \in 0 .. n - 1 |-> NewTask(t)]

AllDone == \A t \in DOMAIN tasks : tasks[t].pc = "done"

\* std::for_each calls segregate on the ranges in order, one after the
\* other; parallel_for_each runs the calls as concurrent tasks.
MayStep(t) ==
  threads \/ \A u \in DOMAIN tasks : u < t => tasks[u].pc = "done"

Sweeping == pc \in {"constant", "variable"}

Constant == pc = "constant"

\* The results of the predicate on the elements after the pivot.
PredResults(begin, end) ==
  {Pred(Constant, At(Sections, begin), At(Sections, k)) :
     k \in begin + 1 .. end - 1}

\* ICF.cpp:132-148: the loop test, the partition step and the test of Mid.
TaskPartition(t) ==
  /\ Sweeping
  /\ t \in DOMAIN tasks
  /\ tasks[t].pc = "loop"
  /\ MayStep(t)
  /\ LET R == RangeAt(tasks[t].R)
         Begin == R.Begin
         RangeEnd == R.End
         pivot == At(Sections, Begin)
         part == StablePartition(Sections, Begin + 1, RangeEnd,
                   {x \in SecIds : Pred(Constant, pivot, x) = "true"})
         Mid == part.bound
     IN  IF RangeEnd - Begin <= 1
         THEN /\ tasks' = [tasks EXCEPT ![t].pc = "done"]
              /\ UNCHANGED <<Sections, pc>>
         ELSE IF PredResults(Begin, RangeEnd) \subseteq {"true", "false"}
         THEN /\ Sections' = part.seq
              /\ tasks' = IF Mid = RangeEnd
                          THEN [tasks EXCEPT ![t].pc = "done"]
                          ELSE [tasks EXCEPT ![t].pc = "lock",
                                             ![t].Begin = Begin,
                                             ![t].End = RangeEnd,
                                             ![t].Mid = Mid]
              /\ pc' = pc
         ELSE /\ pc' \in {"abort_assert", "abort_segv"}
              /\ UNCHANGED <<Sections, tasks>>
  /\ UNCHANGED <<secs, rela, threads, GroupId, Repl, Ranges, Mu, NextId, Cnt,
                 I, End, run>>

\* ICF.cpp:154: std::lock_guard takes Mu.
TaskLock(t) ==
  /\ Sweeping
  /\ t \in DOMAIN tasks
  /\ tasks[t].pc = "lock"
  /\ MayStep(t)
  /\ Mu = 0
  /\ Mu' = t + 1
  /\ tasks' = [tasks EXCEPT ![t].pc = "locked"]
  /\ UNCHANGED <<secs, rela, threads, GroupId, Repl, Sections, Ranges, NextId,
                 Cnt, pc, I, End, run>>

\* The critical section with Id = NextId in place of Id = NextId++.
TaskPush_SameId(t) ==
  /\ Sweeping
  /\ t \in DOMAIN tasks
  /\ tasks[t].pc = "locked"
  /\ MayStep(t)
  /\ Ranges' = Append(Ranges, [Begin |-> tasks[t].Mid, End |-> tasks[t].End])
  /\ NextId' = NextId
  /\ Mu' = 0
  /\ tasks' = [tasks EXCEPT ![t].pc = "update",
                            ![t].NewRange = Len(Ranges),
                            ![t].Id = NextId]
  /\ UNCHANGED <<secs, rela, threads, GroupId, Repl, Sections, Cnt, pc, I,
                 End, run>>

\* The critical section left without releasing Mu.
TaskPush_KeepLock(t) ==
  /\ Sweeping
  /\ t \in DOMAIN tasks
  /\ tasks[t].pc = "locked"
  /\ MayStep(t)
  /\ Ranges' = Append(Ranges, [Begin |-> tasks[t].Mid, End |-> tasks[t].End])
  /\ NextId' = Inc32(NextId)
  /\ Mu' = Mu
  /\ tasks' = [tasks EXCEPT ![t].pc = "update",
                            ![t].NewRange = Len(Ranges),
                            ![t].Id = NextId]
  /\ UNCHANGED <<secs, rela, threads, GroupId, Repl, Sections, Cnt, pc, I,
                 End, run>>

\* ICF.cpp:155-158: the new range and its id, then the guard releases Mu.
TaskPush(t) ==
  /\ Sweeping
  /\ t \in DOMAIN tasks
  /\ tasks[t].pc = "locked"
  /\ MayStep(t)
  /\ Ranges' = Append(Ranges, [Begin |-> tasks[t].Mid, End |-> tasks[t].End])
  /\ NextId' = Inc32(NextId)
  /\ Mu' = 0
  /\ tasks' = [tasks EXCEPT ![t].pc = "update",
                            ![t].NewRange = Len(Ranges),
                            ![t].Id = NextId]
  /\ UNCHANGED <<secs, rela, threads, GroupId, Repl, Sections, Cnt, pc, I,
                 End, run>>

\* The split without R->End = Mid: the range that was split keeps its end.
TaskShrink_Keep(t) ==
  /\ Sweeping
  /\ t \in DOMAIN tasks
  /\ tasks[t].pc = "update"
  /\ MayStep(t)
  /\ tasks' = [tasks EXCEPT ![t].pc = "write", ![t].I = tasks[t].Mid]
  /\ UNCHANGED <<secs, rela, threads, GroupId, Repl, Sections, Ranges, Mu,
                 NextId, Cnt, pc, I, End, run>>

\* The id loop started one past Mid.
TaskShrink_SkipFirst(t) ==
  /\ Sweeping
  /\ t \in DOMAIN tasks
  /\ tasks[t].pc = "update"
  /\ MayStep(t)
  /\ Ranges' = [Ranges EXCEPT ![tasks[t].R + 1].End = tasks[t].Mid]
  /\ tasks' = [tasks EXCEPT ![t].pc = "write", ![t].I = tasks[t].Mid + 1]
  /\ UNCHANGED <<secs, rela, threads, GroupId, Repl, Sections, Mu, NextId,
                 Cnt, pc, I, End, run>>

\* The id loop started at Begin instead of at Mid.
TaskShrink_FromBegin(t) ==
  /\ Sweeping
  /\ t \in DOMAIN tasks
  /\ tasks[t].pc = "update"
  /\ MayStep(t)
  /\ Ranges' = [Ranges EXCEPT ![tasks[t].R + 1].End = tasks[t].Mid]
  /\ tasks' = [tasks EXCEPT ![t].pc = "write", ![t].I = tasks[t].Begin]
  /\ UNCHANGED <<secs, rela, threads, GroupId, Repl, Sections, Mu, NextId,
                 Cnt, pc, I, End, run>>

\* ICF.cpp:159 and the start of the loop of ICF.cpp:177.
TaskShrink(t) ==
  /\ Sweeping
  /\ t \in DOMAIN tasks
  /\ tasks[t].pc = "update"
  /\ MayStep(t)
  /\ Ranges' = [Ranges EXCEPT ![tasks[t].R + 1].End = tasks[t].Mid]
  /\ tasks' = [tasks EXCEPT ![t].pc = "write", ![t].I = tasks[t].Mid]
  /\ UNCHANGED <<secs, rela, threads, GroupId, Repl, Sections, Mu, NextId,
                 Cnt, pc, I, End, run>>

\* The loop of ICF.cpp:177-178 writing the new id to the slot Cnt % 2.
TaskWrite_ReadSlot(t) ==
  /\ Sweeping
  /\ t \in DOMAIN tasks
  /\ tasks[t].pc = "write"
  /\ MayStep(t)
  /\ tasks[t].I < tasks[t].End
  /\ GroupId' = [GroupId EXCEPT
                   ![At(Sections, tasks[t].I)][Cnt % 2] = tasks[t].Id]
  /\ tasks' = [tasks EXCEPT ![t].I = tasks[t].I + 1]
  /\ UNCHANGED <<secs, rela, threads, Repl, Sections, Ranges, Mu, NextId, Cnt,
                 pc, I, End, run>>

\* ICF.cpp:177-178: one iteration of the loop that writes the new id.
TaskWrite(t) ==
  /\ Sweeping
  /\ t \in DOMAIN tasks
  /\ tasks[t].pc = "write"
  /\ MayStep(t)
  /\ tasks[t].I < tasks[t].End
  /\ GroupId' = [GroupId EXCEPT
                   ![At(Sections, tasks[t].I)][(Cnt + 1) % 2] = tasks[t].Id]
  /\ tasks' = [tasks EXCEPT ![t].I = tasks[t].I + 1]
  /\ UNCHANGED <<secs, rela, threads, Repl, Sections, Ranges, Mu, NextId, Cnt,
                 pc, I, End, run>>

\* segregate returning after the first split instead of going on with the
\* new range.
TaskNext_Return(t) ==
  /\ Sweeping
  /\ t \in DOMAIN tasks
  /\ tasks[t].pc = "write"
  /\ MayStep(t)
  /\ tasks[t].I >= tasks[t].End
  /\ tasks' = [tasks EXCEPT ![t].pc = "done"]
  /\ UNCHANGED <<secs, rela, threads, GroupId, Repl, Sections, Ranges, Mu,
                 NextId, Cnt, pc, I, End, run>>

\* The loop going on with the range it has shrunk instead of R = NewRange.
TaskNext_Kept(t) ==
  /\ Sweeping
  /\ t \in DOMAIN tasks
  /\ tasks[t].pc = "write"
  /\ MayStep(t)
  /\ tasks[t].I >= tasks[t].End
  /\ tasks' = [tasks EXCEPT ![t] = NewTask(tasks[t].R)]
  /\ UNCHANGED <<secs, rela, threads, GroupId, Repl, Sections, Ranges, Mu,
                 NextId, Cnt, pc, I, End, run>>

\* ICF.cpp:180: R = NewRange, and back to the loop test.  The locals of the
\* finished iteration are dead and are cleared.
TaskNext(t) ==
  /\ Sweeping
  /\ t \in DOMAIN tasks
  /\ tasks[t].pc = "write"
  /\ MayStep(t)
  /\ tasks[t].I >= tasks[t].End
  /\ tasks' = [tasks EXCEPT ![t] = NewTask(tasks[t].NewRange)]
  /\ UNCHANGED <<secs, rela, threads, GroupId, Repl, Sections, Ranges, Mu,
                 NextId, Cnt, pc, I, End, run>>

\* ------------------------------------------------------ run(), continued

\* Copy that leaves the former read-only slot as it is.
CopyFrom_None(G, r) == G

\* Copy with the two slots exchanged: the former read-only slot is copied
\* over the new ids.
RECURSIVE CopyFrom_Reverse(_, _)
CopyFrom_Reverse(G, r) ==
  IF r >= Len(Ranges) THEN G
  ELSE LET R == RangeAt(r)
           members == {At(Sections, k) : k \in R.Begin .. R.End - 1}
       IN  CopyFrom_Reverse([s \in SecIds |->
                               IF s \in members
                               THEN [G[s] EXCEPT ![(Cnt + 1) % 2] = G[s][Cnt % 2]]
                               ELSE G[s]],
                            r + 1)

\* The lambda Copy applied to the ranges [from, Ranges.end()) (ICF.cpp:313-316,
\* 321, 328).
RECURSIVE CopyFrom(_, _)
CopyFrom(G, r) ==
  IF r >= Len(Ranges) THEN G
  ELSE LET R == RangeAt(r)
           members == {At(Sections, k) : k \in R.Begin .. R.End - 1}
       IN  CopyFrom([s \in SecIds |->
                       IF s \in members
                       THEN [G[s] EXCEPT ![Cnt % 2] = G[s][(Cnt + 1) % 2]]
                       ELSE G[s]],
                    r + 1)

\* run() without the constant pass: after the scan the variable sweeps start.
BeginConstant_Skip ==
  /\ pc = "scan"
  /\ ~SizeLess(I, ScanLimit)
  /\ pc' = "sweep"
  /\ UNCHANGED <<secs, rela, threads, GroupId, Repl, Sections, Ranges, Mu,
                 NextId, Cnt, I, End, tasks, run>>

\* The scan loop ends; auto End = Ranges.end() and the constant pass starts
\* (ICF.cpp:319-320).
BeginConstant ==
  /\ pc = "scan"
  /\ ~SizeLess(I, ScanLimit)
  /\ End' = Len(Ranges)
  /\ tasks' = StartTasks(Len(Ranges))
  /\ pc' = "constant"
  /\ UNCHANGED <<secs, rela, threads, GroupId, Repl, Sections, Ranges, Mu,
                 NextId, Cnt, I, run>>

\* ICF.cpp:321-322: all calls have returned; Copy, ++Cnt.
EndConstant ==
  /\ pc = "constant"
  /\ AllDone
  /\ GroupId' = CopyFrom(GroupId, End)
  /\ Cnt' = Cnt + 1
  /\ tasks' = NoTasks
  /\ pc' = "sweep"
  /\ UNCHANGED <<secs, rela, threads, Repl, Sections, Ranges, Mu, NextId, I,
                 End, run>>

\* ICF.cpp:326-327: auto End = Ranges.end() and the calls of a variable sweep.
BeginSweep ==
  /\ pc = "sweep"
  /\ End' = Len(Ranges)
  /\ tasks' = StartTasks(Len(Ranges))
  /\ pc' = "variable"
  /\ UNCHANGED <<secs, rela, threads, GroupId, Repl, Sections, Ranges, Mu,
                 NextId, Cnt, I, run>>

\* ICF.cpp:328-332: Copy, ++Cnt, and the test that ends the loop.
EndSweep ==
  /\ pc = "variable"
  /\ AllDone
  /\ GroupId' = CopyFrom(GroupId, End)
  /\ Cnt' = Cnt + 1
  /\ tasks' = NoTasks
  /\ pc' = IF End = Len(Ranges) THEN "merge" ELSE "sweep"
  /\ I' = 0
  /\ UNCHANGED <<secs, rela, threads, Repl, Sections, Ranges, Mu, NextId, End,
                 run>>

\* InputSection::replace(Other), called on the representative: Other's
\* replaceable slot is pointed at the representative.
replace(R, rep, other) == [R EXCEPT ![other] = rep]

\* The loop of ICF.cpp:343-346 with each member replaced by its predecessor
\* instead of by the section at Begin.
RECURSIVE ReplaceAll_Chain(_, _, _, _)
ReplaceAll_Chain(R, begin, k, end) ==
  IF k >= end THEN R
  ELSE ReplaceAll_Chain(replace(R, At(Sections, k - 1), At(Sections, k)),
                        begin, k + 1, end)

RECURSIVE ReplaceAll(_, _, _, _)
ReplaceAll(R, begin, k, end) ==
  IF k >= end THEN R
  ELSE ReplaceAll(replace(R, At(Sections, begin), At(Sections, k)),
                  begin, k + 1, end)

\* ICF.cpp:338-347: one iteration of the loop over Ranges.
Merge ==
  /\ pc = "merge"
  /\ I < Len(Ranges)
  /\ LET R == RangeAt(I)
     IN  Repl' = IF R.End - R.Begin = 1 THEN Repl
                 ELSE ReplaceAll(Repl, R.Begin, R.Begin + 1, R.End)
  /\ I' = I + 1
  /\ UNCHANGED <<secs, rela, threads, GroupId, Sections, Ranges, Mu, NextId,
                 Cnt, pc, End, tasks, run>>

\* run() returns.
Return ==
  /\ pc = "merge"
  /\ I >= Len(Ranges)
  /\ pc' = "done"
  /\ UNCHANGED <<secs, rela, threads, GroupId, Repl, Sections, Ranges, Mu,
                 NextId, Cnt, I, End, tasks, run>>

\* doIcf() is called a second time on the sections the first call left: a
\* fresh ICF object (ICF.cpp:98-103, 351), the same sections and symbols.
Rerun ==
  /\ pc = "done"
  /\ run = 1
  /\ run' = 2
  /\ Sections' = <<>>
  /\ Ranges' = <<>>
  /\ NextId' = Inc32(Zero32)
  /\ Cnt' = 0
  /\ I' = 0
  /\ End' = 0
  /\ pc' = "collect"
  /\ UNCHANGED <<secs, rela, threads, GroupId, Repl, Mu, tasks>>

TaskIds == 0 .. NumSecs - 1

TaskStep(t) ==
  \/ TaskPartition(t)
  \/ TaskLock(t)
  \/ TaskPush(t)
  \/ TaskShrink(t)
  \/ TaskWrite(t)
  \/ TaskNext(t)

Next ==
  \/ Collect
  \/ InitHash
  \/ Sort
  \/ ScanStep
  \/ ScanIdle
  \/ BeginConstant
  \/ \E t \in TaskIds : TaskPartition(t)
  \/ \E t \in TaskIds : TaskLock(t)
  \/ \E t \in TaskIds : TaskPush(t)
  \/ \E t \in TaskIds : TaskShrink(t)
  \/ \E t \in TaskIds : TaskWrite(t)
  \/ \E t \in TaskIds : TaskNext(t)
  \/ EndConstant
  \/ BeginSweep
  \/ EndSweep
  \/ Merge
  \/ Return
  \/ Rerun

Spec == Init /\ [][Next]_vars

\* The worker pool runs every task it was given, and run() itself proceeds.
FairSpec ==
  /\ Spec
  /\ WF_vars(Next)

\* ------------------------------------------------- notions the claims use

Done == pc = "done"

\* The sections a range holds.
Members(r) == {At(Sections, k) : k \in RangeAt(r).Begin .. RangeAt(r).End - 1}

RangeIds == 0 .. Len(Ranges) - 1

\* The representative of a range: the section at index Begin.
Rep(r) == At(Sections, RangeAt(r).Begin)

SameRange(a, b) == \E r \in RangeIds : a \in Members(r) /\ b \in Members(r)

\* Two sections are in one class when one range holds both; a section that
\* is in no range is a class of its own.
SameClass(a, b) == a = b \/ SameRange(a, b)

Eligible == {s \in SecIds : secs[s].Kind = "Regular" /\ isEligible(s)}

\* The classes: the ranges, and the eligible sections that are in no range.
FinalPartition ==
  {Members(r) : r \in RangeIds}
    \cup {{s} : s \in {x \in Eligible : \A r \in RangeIds : x \notin Members(r)}}

\* (C1) Soundness.  When run() has finished, any two sections of one range
\* have equal data, flags and size and equally many relocations, and their
\* i-th relocations have equal offset, type and addend and refer to the same
\* symbol or to two DefinedRegular symbols of equal value whose sections are
\* in one final class.
SoundTargets(ra, rb) ==
  \/ ra.sym = rb.sym
  \/ /\ ra.sym.kind = "DefinedRegular"
     /\ rb.sym.kind = "DefinedRegular"
     /\ ra.sym.Value = rb.sym.Value
     /\ ra.sym.Section \in Eligible
     /\ rb.sym.Section \in Eligible
     /\ SameClass(ra.sym.Section, rb.sym.Section)

SoundPair(a, b) ==
  /\ secs[a].Data = secs[b].Data
  /\ secs[a].Flags = secs[b].Flags
  /\ getSize(a) = getSize(b)
  /\ Len(secs[a].Relocs) = Len(secs[b].Relocs)
  /\ \A i \in 1 .. Len(secs[a].Relocs) :
       /\ i <= Len(secs[b].Relocs)
       /\ secs[a].Relocs[i].r_offset = secs[b].Relocs[i].r_offset
       /\ secs[a].Relocs[i].type = secs[b].Relocs[i].type
       /\ secs[a].Relocs[i].addend = secs[b].Relocs[i].addend
       /\ SoundTargets(secs[a].Relocs[i], secs[b].Relocs[i])

C1_Soundness ==
  Done => \A r \in RangeIds : \A a, b \in Members(r) : SoundPair(a, b)

\* A finished run that folded two sections whose paired relocations refer to
\* different symbols.
C1_Witness ==
  /\ Done
  /\ \E r \in RangeIds : \E a, b \in Members(r) :
       /\ secs[a].Relocs # <<>>
       /\ secs[b].Relocs # <<>>
       /\ secs[a].Relocs[1].sym # secs[b].Relocs[1].sym

\* The partition of the eligible sections by equalsConstant.
ConstClasses == {{b \in Eligible : equalsConstant(a, b)} : a \in Eligible}

\* Two paired relocations agree under a partition P of the eligible
\* sections: the same symbol, or two DefinedRegular symbols of equal value in
\* eligible sections of one block of P.
TargetsAgree(P, ra, rb) ==
  \/ ra.sym = rb.sym
  \/ /\ ra.sym.kind = "DefinedRegular"
     /\ rb.sym.kind = "DefinedRegular"
     /\ ra.sym.Value = rb.sym.Value
     /\ \E B \in P : ra.sym.Section \in B /\ rb.sym.Section \in B

PairAgrees(P, a, b) ==
  \A i \in 1 .. Len(secs[a].Relocs) :
    TargetsAgree(P, secs[a].Relocs[i], secs[b].Relocs[i])

\* Every block of P split by agreement under P.
Refine(P) == UNION {{{b \in B : PairAgrees(P, a, b)} : a \in B} : B \in P}

\* The coarsest partition below P that its own refinement leaves alone.
RECURSIVE CoarsestStable(_)
CoarsestStable(P) == IF Refine(P) = P THEN P ELSE CoarsestStable(Refine(P))

\* A function of the input sections alone: neither threads nor the order in
\* which tasks ran enters it.
ExpectedPartition == CoarsestStable(ConstClasses)

\* (C2) Determinism.  When run() has finished, the partition of the eligible
\* sections into classes is one function of the input, the same with
\* threads = FALSE and with threads = TRUE under every interleaving of the
\* segregate tasks.
C2_Determinism == Done => FinalPartition = ExpectedPartition

\* A finished threaded run whose sweeps ran two tasks side by side, that
\* split a range and that folded sections.
C2_Witness ==
  /\ Done
  /\ threads
  /\ End >= 2
  /\ NextId # Inc32(Zero32)
  /\ \E r \in RangeIds : Cardinality(Members(r)) >= 2

\* (C3) Termination.  run() never stops before its end, the loop of variable
\* sweeps is left exactly after a sweep that created no range, and the
\* number of classes never exceeds the number of eligible sections.
C3_Termination ==
  /\ Done \/ ENABLED Next
  /\ pc = "merge" => End = Len(Ranges)
  /\ (pc = "sweep" /\ Cnt >= 2) => End < Len(Ranges)
  /\ (pc \in {"sweep", "merge", "done"})
       => Cardinality(FinalPartition) <= Cardinality(Eligible)

\* (C4) Replacement postcondition.  When run() has finished, in every range
\* of at least two members the replaceable slot of every member but the
\* representative points at the representative, the representative's slot
\* points at itself, and no slot points at a section that is folded away.
C4_Replacement ==
  Done =>
    /\ \A r \in RangeIds :
         Cardinality(Members(r)) >= 2 =>
           /\ \A m \in Members(r) \ {Rep(r)} : Repl[m] = Rep(r)
           /\ Repl[Rep(r)] = Rep(r)
    /\ \A s \in SecIds : Repl[Repl[s]] = Repl[s]

\* A finished first run with a range of three members.
C4_Witness ==
  /\ Done
  /\ run = 1
  /\ \E r \in RangeIds : Cardinality(Members(r)) >= 3

\* A section that is not live, is writable, is not allocatable or is named
\* .init or .fini.
Excluded(s) ==
  \/ ~secs[s].Live
  \/ HasFlag(secs[s].Flags, SHF_WRITE)
  \/ ~HasFlag(secs[s].Flags, SHF_ALLOC)
  \/ secs[s].Name \in {".init", ".fini"}

\* Eligibility respect, as a condition on one state.
ExcludedUntouched ==
  \A s \in SecIds :
    Excluded(s) =>
      /\ ~InSections(s)
      /\ GroupId[s] = [k \in 0 .. 1 |-> Zero32]
      /\ Repl[s] = s
      /\ \A x \in SecIds \ {s} : Repl[x] # s

\* (C5) Eligibility respect.  A section that is not live, is writable, is not
\* allocatable or is named .init or .fini is never in Sections (so in no
\* range), its class ids stay zero, its replaceable slot stays its own and no
\* other section is folded into it.
C5_Eligibility == []ExcludedUntouched

\* A finished run that folded sections next to an ineligible section of the
\* same contents.
C5_Witness ==
  /\ Done
  /\ \E s \in SecIds : \E r \in RangeIds :
       /\ Excluded(s)
       /\ Cardinality(Members(r)) >= 2
       /\ secs[s].Data = secs[Rep(r)].Data

\* (C6) Representative choice.  When run() has finished, the representative
\* of every range has an alignment at least that of every member.
C6_Representative ==
  Done => \A r \in RangeIds : \A m \in Members(r) :
            secs[Rep(r)].Alignment >= secs[m].Alignment

\* A finished run whose representative has a larger alignment than a member
\* that precedes it in the input.
C6_Witness ==
  /\ Done
  /\ \E r \in RangeIds : \E m \in Members(r) :
       /\ secs[Rep(r)].Alignment > secs[m].Alignment
       /\ m < Rep(r)

\* The phases of run() in which the ranges are refined and kept.
Refining == pc \in {"constant", "sweep", "variable", "merge"}

\* The class id of a section in the slot that is current.
ReadId(s) == GroupId[s][Cnt % 2]

\* (C7) Monotone refinement.  Once the ranges exist, no step that changes the
\* sections' order, the ranges, the class ids or the current slot puts two
\* sections that are in different classes into one class: neither by ranges
\* (a range is only split, never merged or grown) nor by current class ids.
C7_Monotone ==
  [][(Refining /\ <<Sections, Ranges, GroupId, Cnt>>'
                    # <<Sections, Ranges, GroupId, Cnt>>) =>
       \A a \in Eligible : \A b \in {x \in Eligible : x > a} :
         /\ ReadId(a) # ReadId(b) => ReadId(a)' # ReadId(b)'
         /\ ~SameRange(a, b) => ~SameRange(a, b)']_vars

\* A variable sweep after the first one, with two sections of equal constants
\* that an earlier variable sweep has split.
C7_Witness ==
  /\ pc = "variable"
  /\ Cnt >= 2
  /\ \E a, b \in Eligible :
       /\ equalsConstant(a, b)
       /\ ~SameClass(a, b)
       /\ ReadId(a) # ReadId(b)

\* A step of the merge loop that calls replace(): the range at I has more than
\* one member.
ReplaceCalled ==
  /\ pc = "merge"
  /\ I < Len(Ranges)
  /\ RangeAt(I).End - RangeAt(I).Begin > 1
  /\ I' = I + 1

MutuallyRecursive(a, b) ==
  /\ a # b
  /\ NumRelocations(a) = 1
  /\ NumRelocations(b) = 1
  /\ LET SA == secs[a].Relocs[1].sym
         SB == secs[b].Relocs[1].sym
     IN  /\ SA.kind = "DefinedRegular"
         /\ SB.kind = "DefinedRegular"
         /\ SA.Section = b
         /\ SB.Section = a
         /\ SA.Value = SB.Value

\* (C9) Mutual recursion is folded.  When run() has returned, two eligible
\* sections with equal constants that call each other are in one class and
\* one of them is folded into the other; the class has exactly these two
\* members when no third section has their constants.
C9_MutualRecursion ==
  Done =>
    \A a, b \in Eligible :
      (equalsConstant(a, b) /\ MutuallyRecursive(a, b)) =>
        /\ SameRange(a, b)
        /\ Repl[a] = Repl[b]
        /\ (\A c \in Eligible \ {a, b} : ~equalsConstant(a, c)) =>
             /\ \E r \in RangeIds : Members(r) = {a, b}
             /\ Repl[a] = b \/ Repl[b] = a

\* The first run has returned on an input with two mutually recursive
\* sections of equal constants and no third section of those constants.
C9_Witness ==
  /\ Done
  /\ run = 1
  /\ \E a, b \in Eligible :
       /\ equalsConstant(a, b)
       /\ MutuallyRecursive(a, b)
       /\ \A c \in Eligible \ {a, b} : ~equalsConstant(a, c)

\* The section a relocation of section s refers to, as the input gives it.
TargetOf(s, i) == secs[s].Relocs[i].sym.Section

\* Sections a and b have a paired relocation whose targets both lie in
\* ineligible sections.
IneligibleTargets(a, b, i) ==
  /\ i <= NumRelocations(a)
  /\ i <= NumRelocations(b)
  /\ TargetOf(a, i) \in SecIds \ Eligible
  /\ TargetOf(b, i) \in SecIds \ Eligible

\* (C10) A relocation into an ineligible section blocks folding, as stated:
\* two eligible sections of equal constants with a paired relocation into an
\* ineligible section are not in one class when run() has returned.
C10_IneligibleBlocks ==
  Done =>
    \A a, b \in Eligible :
      (a # b /\ equalsConstant(a, b)
         /\ \E i \in 1 .. NumRelocations(a) :
              /\ IneligibleTargets(a, b, i)
              /\ TargetOf(a, i) = TargetOf(b, i))
        => ~SameRange(a, b)

\* (C10, amended) Two eligible sections with a paired relocation that refers
\* to two different symbols defined in ineligible sections are not in one
\* class when run() has returned.  (A pair referring to one and the same
\* symbol is equal whatever section the symbol is in.)
C10_DistinctSymbols ==
  Done =>
    \A a, b \in Eligible :
      (a # b
         /\ \E i \in 1 .. NumRelocations(a) :
              /\ IneligibleTargets(a, b, i)
              /\ secs[a].Relocs[i].sym # secs[b].Relocs[i].sym)
        => /\ ~SameRange(a, b)
           /\ Repl[a] # b
           /\ Repl[b] # a

\* run() has returned on an input in which two eligible sections of equal
\* constants refer, in a paired relocation, to two different symbols of equal
\* value in an ineligible section.
C10_Witness ==
  /\ Done
  /\ \E a, b \in Eligible :
       /\ a # b
       /\ equalsConstant(a, b)
       /\ IneligibleTargets(a, b, 1)
       /\ secs[a].Relocs[1].sym # secs[b].Relocs[1].sym
       /\ secs[a].Relocs[1].sym.Value = secs[b].Relocs[1].sym.Value

\* The constant pass is over.
AfterConstant == pc \in {"sweep", "variable", "merge", "done"}

\* Sections a and b are identical except for the addend of relocation i.
AddendDiffers(a, b, i) ==
  /\ secs[a].Data = secs[b].Data
  /\ secs[a].Flags = secs[b].Flags
  /\ NumRelocations(a) = NumRelocations(b)
  /\ i <= NumRelocations(a)
  /\ secs[a].Relocs[i].addend # secs[b].Relocs[i].addend
  /\ secs[a].Relocs[i].r_offset = secs[b].Relocs[i].r_offset
  /\ secs[a].Relocs[i].type = secs[b].Relocs[i].type
  /\ secs[a].Relocs[i].sym = secs[b].Relocs[i].sym

\* Addend discriminates, as a condition on one state.
AddendSeparates ==
  (rela /\ AfterConstant) =>
    \A a, b \in Eligible :
      (\E i \in 1 .. NumRelocations(a) : AddendDiffers(a, b, i)) =>
        /\ ~SameRange(a, b)
        /\ Done => Repl[a] # Repl[b]

\* (C11) Addend discriminates.  In a rela link, two eligible sections that are
\* identical except for the addend of one paired relocation are in different
\* ranges at every point after the constant pass, and when run() has returned
\* neither is folded into the other or into a common representative.
C11_Addend == []AddendSeparates

\* run() has returned in a rela link with two sections of equal hash that
\* differ in one addend only.
C11_Witness ==
  /\ rela
  /\ Done
  /\ \E a, b \in Eligible :
       /\ AddendDiffers(a, b, 1)
       /\ getHash(a) = getHash(b)

\* Sections a, b and c, d are two cycles of two: a and b refer to each other,
\* c and d refer to each other, a and c have equal constants, b and d have
\* equal constants and a and b do not.
TwoCycles(a, b, c, d) ==
  /\ Cardinality({a, b, c, d}) = 4
  /\ MutuallyRecursive(a, b)
  /\ MutuallyRecursive(c, d)
  /\ equalsConstant(a, c)
  /\ equalsConstant(b, d)
  /\ ~equalsConstant(a, b)

\* (C12) Two isomorphic cycles fold pairwise.  When run() has returned on
\* two such cycles, a is in one class with c and b with d, a and b are in
\* different classes, and Cnt (the reported number of iterations) is at
\* least 2; when these four are all the eligible sections, the final classes
\* are exactly {a, c} and {b, d}.
C12_TwoCycles ==
  Done =>
    \A a, b, c, d \in Eligible :
      TwoCycles(a, b, c, d) =>
        /\ SameRange(a, c)
        /\ SameRange(b, d)
        /\ ~SameRange(a, b)
        /\ Repl[a] = Repl[c]
        /\ Repl[b] = Repl[d]
        /\ Cnt >= 2
        /\ Eligible = {a, b, c, d} => FinalPartition = {{a, c}, {b, d}}

\* The first run has returned on two isomorphic cycles that are all the
\* eligible sections.
C12_Witness ==
  /\ Done
  /\ run = 1
  /\ \E a, b, c, d \in Eligible :
       /\ TwoCycles(a, b, c, d)
       /\ Eligible = {a, b, c, d}

\* The member of a range that comes first in the input order.
FirstInInput(r) == CHOOSE s \in Members(r) : \A x \in Members(r) : s <= x

\* All members of a range have one alignment.
OneAlignment(r) ==
  \A x, y \in Members(r) : secs[x].Alignment = secs[y].Alignment

\* (C13) Input-order tie-break.  When run() has returned, the representative
\* of a range whose members all have the same alignment is the member that
\* is first in the input order, and the other members are folded into it.
C13_InputOrder ==
  Done =>
    \A r \in RangeIds :
      OneAlignment(r) =>
        /\ Rep(r) = FirstInInput(r)
        /\ \A x \in Members(r) : Repl[x] = FirstInInput(r)

\* run() has returned with a range of two or more members of one alignment
\* that was split off another range.
C13_Witness ==
  /\ Done
  /\ \E r \in RangeIds :
       /\ Cardinality(Members(r)) >= 2
       /\ OneAlignment(r)
       /\ \E x \in Eligible :
            /\ x < FirstInInput(r)
            /\ getHash(x) = getHash(FirstInInput(r))
            /\ secs[x].Alignment = secs[FirstInInput(r)].Alignment

\* run() was aborted inside variableEq.
Aborted == pc \in {"abort_assert", "abort_segv"}

\* (C14) No error outcome.  On every input, whatever the kinds of the symbols
\* its relocations refer to, run() never enters an error or abort state.
C14_NoAbort == ~Aborted

\* The sections whose replaceable slot the current step of the merge loop
\* may write: the members of the range at I other than the one at Begin.
FoldedNow ==
  IF pc = "merge" /\ I < Len(Ranges) THEN Members(I) \ {Rep(I)} ELSE {}

\* (C15) Frame.  No step of run() changes the name, flags, data, alignment,
\* relocations or live bit of a section; a step changes the class-id slots
\* of eligible sections only and the replaceable slot of folded members
\* only (the non-first members of the range the merge loop is at).
C15_Frame ==
  [][/\ secs' = secs
     /\ \A s \in SecIds :
          /\ GroupId'[s] # GroupId[s] => s \in Eligible
          /\ Repl'[s] # Repl[s] => s \in FoldedNow]_vars

\* run() has returned on an input with an ineligible section, having written
\* class ids and folded a section.
C15_Witness ==
  /\ Done
  /\ SecIds \ Eligible # {}
  /\ \E s \in Eligible : GroupId[s][0] # Zero32
  /\ \E s \in Eligible : Repl[s] # s

\* Constant homogeneity, as a condition on one state.
ConstantHomogeneity ==
  AfterConstant =>
    \A r \in RangeIds : \A a, b \in Members(r) : equalsConstant(a, b)

\* (C16) Constant homogeneity.  From the end of the constant pass on, any two
\* sections of one range are equal under equalsConstant, in the ranges that
\* the scan made and in the ranges that the constant pass appended.
C16_ConstantHomogeneity == []ConstantHomogeneity

\* The constant pass has just ended, having appended two or more ranges, one
\* of them with two or more members.
C16_Witness ==
  /\ pc = "sweep"
  /\ Cnt = 1
  /\ Len(Ranges) >= End + 2
  /\ \E r \in RangeIds : r >= End /\ Cardinality(Members(r)) >= 2

\* (C17) Read-slot immutability.  With threads, while a segregate call of the
\* current sweep has not returned, no step writes the slot Cnt % 2 of any
\* section, the slot the variable predicate compares is Cnt % 2, and no step
\* that changes what the variable predicate depends on changes its value on
\* any two sections (so no call sees a write of another call).  The slot Cnt % 2 is written by Copy
\* only, which runs when all calls have returned.
C17_ReadSlot ==
  [][(threads /\ Sweeping /\ ~AllDone) =>
       /\ ReadIdx = Cnt % 2
       /\ \A s \in SecIds : GroupId'[s][Cnt % 2] = GroupId[s][Cnt % 2]
       /\ <<GroupId, Cnt, Repl, secs, threads>>'
            # <<GroupId, Cnt, Repl, secs, threads>> =>
              \A a, b \in Eligible :
                equalsVariable(a, b)' = equalsVariable(a, b)]_vars

\* With threads, in a variable sweep, one call has written the new id of a
\* section while another call is about to compare sections one of which
\* refers to that section.
C17_Witness ==
  /\ threads
  /\ pc = "variable"
  /\ \E t, u \in DOMAIN tasks :
       /\ t # u
       /\ tasks[t].pc = "write"
       /\ tasks[t].I > tasks[t].Mid
       /\ tasks[u].pc = "loop"
       /\ \E x \in Members(tasks[u].R) :
            /\ NumRelocations(x) = 1
            /\ secs[x].Relocs[1].sym.Section = At(Sections, tasks[t].Mid)

\* The index interval of a range.
Interval(r) == RangeAt(r).Begin .. RangeAt(r).End - 1

\* All ranges are non-empty intervals within Sections, no two of them share
\* an index.
RangesDisjoint ==
  /\ \A r \in RangeIds :
       /\ 0 <= RangeAt(r).Begin
       /\ RangeAt(r).Begin < RangeAt(r).End
       /\ RangeAt(r).End <= Len(Sections)
  /\ \A r, q \in RangeIds : r # q => Interval(r) \cap Interval(q) = {}

\* A sweep is about to start or has just ended: the scan is complete, or all
\* segregate calls have returned, or run() is between or after the sweeps.
SweepBoundary ==
  \/ pc = "scan" /\ ~SizeLess(I, ScanLimit)
  \/ Sweeping /\ AllDone
  \/ pc \in {"sweep", "merge", "done"}

\* The indices of Sections a segregate call may still permute or write the
\* class ids of: its range before a partition step, the interval of its
\* locals Begin and End after it, nothing once it has returned.
Footprint(t) ==
  IF tasks[t].pc = "done" THEN {}
  ELSE IF tasks[t].pc = "loop" THEN Interval(tasks[t].R)
  ELSE tasks[t].Begin .. tasks[t].End - 1

\* The indices at which a step changes Sections or the class ids of the
\* section there.
Touched ==
  {k \in 0 .. Len(Sections) - 1 :
     \/ At(Sections', k) # At(Sections, k)
     \/ GroupId'[At(Sections, k)] # GroupId[At(Sections, k)]}

\* Disjoint ownership in a state: at the boundaries of the sweeps the ranges
\* are non-empty and disjoint, and during a sweep the calls' footprints are
\* pairwise disjoint.
OwnershipState ==
  /\ SweepBoundary => RangesDisjoint
  /\ Sweeping =>
       \A t, u \in DOMAIN tasks :
         t # u => Footprint(t) \cap Footprint(u) = {}

\* Disjoint ownership in a step of a sweep: no call's footprint grows, and
\* what the step changes lies in the footprint of the call that takes it.
OwnershipStep ==
  (Sweeping /\ pc' = pc) =>
    /\ \A t \in DOMAIN tasks : Footprint(t)' \subseteq Footprint(t)
    /\ Touched # {} =>
         \E t \in DOMAIN tasks :
           /\ Touched \subseteq Footprint(t)
           /\ \A u \in DOMAIN tasks \ {t} : tasks'[u] = tasks[u]

\* (C18) Disjoint ownership.  At the start and the end of every sweep the
\* ranges are non-empty, pairwise disjoint index intervals; during a sweep
\* the segregate calls own pairwise disjoint intervals that never grow, and
\* a call permutes Sections and writes class ids within its own interval
\* only.
C18_Ownership == []OwnershipState /\ [][OwnershipStep]_vars

\* With threads, two calls are both past a partition step that split their
\* ranges, one of them writing class ids.
C18_Witness ==
  /\ threads
  /\ Sweeping
  /\ \E t, u \in DOMAIN tasks :
       /\ t # u
       /\ tasks[t].pc = "write"
       /\ tasks[t].I > tasks[t].Mid
       /\ tasks[u].pc \in {"lock", "locked", "update", "write"}

\* The call that holds Mu.
Holder == Mu - 1

\* Lock scope in a state: Mu is held by a call that is inside the critical
\* section and by no other; a call that waits for Mu can take it, or the
\* holder can leave the critical section.
LockState ==
  /\ Mu # 0 =>
       /\ Sweeping
       /\ Holder \in DOMAIN tasks
       /\ tasks[Holder].pc = "locked"
  /\ \A t \in DOMAIN tasks : tasks[t].pc = "locked" => Mu = t + 1
  /\ \A t \in DOMAIN tasks :
       (Sweeping /\ tasks[t].pc = "lock" /\ MayStep(t)) =>
         \/ ENABLED TaskLock(t)
         \/ Mu # 0 /\ ENABLED TaskPush(Holder)

\* Lock scope in a step taken while Mu is held: either the holder appends
\* the new range, takes the next id and releases Mu, leaving Sections and
\* the class ids alone, or the step is not the holder's and Mu stays held.
LockStep ==
  Mu # 0 =>
    \/ /\ Mu' = 0
       /\ Ranges' = Append(Ranges, [Begin |-> tasks[Holder].Mid,
                                    End |-> tasks[Holder].End])
       /\ NextId' = Inc32(NextId)
       /\ tasks'[Holder].Id = NextId
       /\ Sections' = Sections
       /\ GroupId' = GroupId
    \/ /\ Mu' = Mu
       /\ tasks'[Holder] = tasks[Holder]

\* (C19) Lock scope.  A segregate call holds Mu only while it appends the new
\* range and takes the next id: while it holds Mu it evaluates no predicate,
\* runs no partition step and writes no class id, no second call is in the
\* critical section, and a call that waits for Mu is never stuck (the holder
\* can always leave).
C19_LockScope == []LockState /\ [][LockStep]_vars

\* With threads, one call holds Mu while another call waits for it.
C19_Witness ==
  /\ threads
  /\ Mu # 0
  /\ \E u \in DOMAIN tasks : u # Holder /\ tasks[u].pc = "lock"

\* The calls that have taken an id for the range they split off and have not
\* yet gone on with that range.
Splitting == {t \in DOMAIN tasks : tasks[t].pc \in {"update", "write"}}

\* The sections of the range a call has split off.
NewMembers(t) == {At(Sections, k) : k \in tasks[t].Mid .. tasks[t].End - 1}

\* The sections of Sections.
Collected == {At(Sections, k) : k \in 0 .. Len(Sections) - 1}

\* Fresh ids during a sweep: the id a call took is below NextId, differs from
\* the id of every other call, is held by no section outside the range the
\* call split off, and is in the write slot of every section of that range
\* the id loop has passed.
FreshInSweep ==
  Sweeping =>
    \A t \in Splitting :
      /\ Less32(tasks[t].Id, NextId)
      /\ \A u \in Splitting \ {t} : tasks[u].Id # tasks[t].Id
      /\ \A s \in Collected \ NewMembers(t) :
           tasks[t].Id \notin {GroupId[s][0], GroupId[s][1]}
      /\ \A k \in tasks[t].Mid .. tasks[t].I - 1 :
           GroupId[At(Sections, k)][(Cnt + 1) % 2] = tasks[t].Id

\* Fresh ids between the sweeps: both slots of a section hold one id, and two
\* sections hold the same id exactly when one range holds both.
FreshBetweenSweeps ==
  pc \in {"sweep", "merge", "done"} =>
    \A a, b \in Collected :
      /\ GroupId[a][0] = GroupId[a][1]
      /\ GroupId[a][0] = GroupId[b][0] <=> SameClass(a, b)

\* Fresh ids are unique, as a condition on one state.
FreshIds == FreshInSweep /\ FreshBetweenSweeps

\* (C20) Fresh ids are unique.  Under every interleaving, each range that a
\* split appends gets one id, no two appended ranges get the same id, and all
\* sections of an appended range are written with that id: after each sweep
\* two sections have the same id exactly when they are in one range.
C20_FreshIds == []FreshIds

\* With threads, two calls have each taken an id for a range they split off
\* and one has written it to all sections of its range.
C20_Witness ==
  /\ threads
  /\ Sweeping
  /\ \E t, u \in Splitting :
       /\ t # u
       /\ tasks[t].pc = "write"
       /\ tasks[t].I >= tasks[t].End

\* Bit 31 of a uint32_t.
Bit31(x) == x[1]

\* A serial id: at least 1, bit 31 clear.
IsSerial(x) == Bit31(x) = 0 /\ x # Zero32

\* Id spaces are disjoint, as a condition on one state.
IdSpaces ==
  pc \notin {"collect", "hash"} =>
    /\ IsSerial(NextId)
    /\ \A t \in Splitting : IsSerial(tasks[t].Id)
    /\ \A s \in Collected : \A k \in 0 .. 1 :
         \/ Bit31(GroupId[s][k]) = 1
         \/ IsSerial(GroupId[s][k]) /\ Less32(GroupId[s][k], NextId)
    /\ \A t \in Splitting : \A s \in Collected : \A k \in 0 .. 1 :
         Bit31(GroupId[s][k]) = 1 => tasks[t].Id # GroupId[s][k]

\* (C21) Id spaces are disjoint.  Once the hash ids are set, NextId is at
\* least 1 with bit 31 clear, every id a segregate call has taken is a
\* serial id, and each class-id slot of a section of Sections holds either
\* an id with bit 31 set (its hash id) or a serial id below NextId; so no
\* serial id equals a hash id.
C21_IdSpaces == []IdSpaces

\* run() has returned with a section that kept its hash id and a section
\* that got a serial id.
C21_Witness ==
  /\ Done
  /\ \E s, u \in Collected :
       /\ Bit31(GroupId[s][0]) = 1
       /\ IsSerial(GroupId[u][0])

\* A sweep is about to start: the scan is complete, or run() is between two
\* sweeps, or the calls of a sweep have been made and none has taken a step.
SweepStart ==
  \/ pc = "scan" /\ ~SizeLess(I, ScanLimit)
  \/ pc = "sweep"
  \/ Sweeping /\ End = Len(Ranges) /\ tasks = StartTasks(Len(Ranges))

\* Slots agree at sweep boundaries, as a condition on one state.
SlotsAgree ==
  SweepStart =>
    LET E == Eligible
    IN  /\ \A a \in E : GroupId[a][0] = GroupId[a][1]
        /\ \A a, b \in E :
             a < b =>
               (GroupId[a][Cnt % 2] = GroupId[b][Cnt % 2] <=> SameClass(a, b))

\* (C22) Slots agree at sweep boundaries.  When the constant pass or a
\* variable sweep is about to start, both class-id slots of every eligible
\* section hold the same id, and two eligible sections have the same id
\* exactly when one range holds both or they are the same section.
C22_SlotsAgree == []SlotsAgree

\* A variable sweep after the first is about to start, with a range of two
\* or more sections that carries a serial id.
C22_Witness ==
  /\ pc = "sweep"
  /\ Cnt >= 2
  /\ \E r \in RangeIds :
       /\ Cardinality(Members(r)) >= 2
       /\ IsSerial(GroupId[Rep(r)][0])

\* The sections that hold a given id in slot k are at consecutive indices of
\* Sections: of two sections with one id, the one just before the second has
\* that id too (and so, step by step, all between them).
Contiguous(k) ==
  \A i, j \in 0 .. Len(Sections) - 1 :
    (i < j /\ GroupId[At(Sections, i)][k] = GroupId[At(Sections, j)][k]) =>
      GroupId[At(Sections, j - 1)][k] = GroupId[At(Sections, i)][k]

\* Contiguity, as a condition on one state.
Contiguity == SweepBoundary => Contiguous(0) /\ Contiguous(1)

\* (C23) Contiguity.  At every sweep boundary (the scan is complete, all
\* calls of a sweep have returned, or run() is between or after the sweeps)
\* the sections that share a class id, in either slot, occupy a contiguous
\* index interval of Sections.
C23_Contiguity == []Contiguity

\* All calls of a variable sweep have returned, before Copy; three or more
\* sections, two or more ranges, one range of two or more sections, and a
\* range that this sweep appended.
C23_Witness ==
  /\ pc = "variable"
  /\ AllDone
  /\ Len(Sections) >= 3
  /\ Len(Ranges) > End
  /\ \E r \in RangeIds : Cardinality(Members(r)) >= 2

\* The calls that have not returned.
Running == {t \in DOMAIN tasks : tasks[t].pc # "done"}

\* The index of the pivot of a call: Begin of the range it is refining.
PivotIdx(t) == RangeAt(tasks[t].R).Begin

\* The pivot in a state: after a partition step that split the range, the
\* local Begin is the Begin of the range, Mid lies strictly between Begin
\* and End, so the pivot is the first element of [Begin, Mid).
PivotState ==
  Sweeping =>
    \A t \in Running :
      tasks[t].pc # "loop" =>
        /\ tasks[t].Begin = PivotIdx(t)
        /\ tasks[t].Begin < tasks[t].Mid
        /\ tasks[t].Mid < tasks[t].End

\* The pivot in a step of a sweep: as long as a call stays with its range,
\* the index of its pivot, the section at that index and both class-id slots
\* of that section stay as they are, whichever call takes the step.
PivotStep ==
  (Sweeping /\ pc' = pc) =>
    \A t \in Running :
      tasks'[t].R = tasks[t].R =>
        /\ PivotIdx(t)' = PivotIdx(t)
        /\ At(Sections', PivotIdx(t)) = At(Sections, PivotIdx(t))
        /\ GroupId'[At(Sections, PivotIdx(t))]
             = GroupId[At(Sections, PivotIdx(t))]

\* (C24) Pivot stays put.  In every partition step of segregate on a range
\* [Begin, End) the section at Begin is the pivot: it is not moved, it keeps
\* its class id through the split, and it is the first element of the left
\* sub-range [Begin, Mid), which is not empty.
C24_Pivot == []PivotState /\ [][PivotStep]_vars

\* A call has split its range, leaving the pivot and another section in the
\* left part, and has written the new id to every section of the right part.
C24_Witness ==
  /\ Sweeping
  /\ \E t \in Running :
       /\ tasks[t].pc = "write"
       /\ tasks[t].I >= tasks[t].End
       /\ tasks[t].Mid >= tasks[t].Begin + 2

\* The sections at the indices lo .. hi - 1 of Sections are in non-increasing
\* alignment, and those of equal alignment are in input order: each section
\* and the next are in this order, which is transitive.
Ordered(lo, hi) ==
  \A i \in lo .. hi - 2 :
    LET a == At(Sections, i)
        b == At(Sections, i + 1)
    IN  /\ secs[a].Alignment >= secs[b].Alignment
        /\ secs[a].Alignment = secs[b].Alignment => a < b

\* The calls between the partition step that split their range and the
\* statement R->End = Mid.
MidSplit(r) ==
  {t \in Running : tasks[t].R = r /\ tasks[t].pc \in {"lock", "locked", "update"}}

\* Order invariant, as a condition on one state.
OrderKept ==
  pc \notin {"collect", "hash", "sort"} =>
    \A r \in RangeIds :
      IF MidSplit(r) = {}
      THEN Ordered(RangeAt(r).Begin, RangeAt(r).End)
      ELSE \A t \in MidSplit(r) :
             /\ Ordered(tasks[t].Begin, tasks[t].Mid)
             /\ Ordered(tasks[t].Mid, tasks[t].End)

\* (C25) Order invariant.  After the initial sort and after every partition
\* step, the sections of every range are in non-increasing alignment by
\* index and those of equal alignment in input order; for a range that a
\* partition step has just split this holds of its two parts [Begin, Mid)
\* and [Mid, End).
C25_Order == []OrderKept

\* A partition step has split a range of sections of two alignments into a
\* left part of two or more sections and a right part of two or more.
C25_Witness ==
  /\ Sweeping
  /\ \E t \in Running :
       /\ tasks[t].pc = "lock"
       /\ tasks[t].Mid >= tasks[t].Begin + 2
       /\ tasks[t].End >= tasks[t].Mid + 2
       /\ \E i, j \in tasks[t].Begin .. tasks[t].End - 1 :
            secs[At(Sections, i)].Alignment # secs[At(Sections, j)].Alignment

\* A call ends an iteration of its loop that split the range: the id loop is
\* over and the call's record changes.
EndsIteration(t) ==
  /\ Sweeping
  /\ pc' = pc
  /\ tasks[t].pc = "write"
  /\ tasks[t].I >= tasks[t].End
  /\ tasks'[t] # tasks[t]

\* After the split the range R is [Begin, Mid) and the range appended for the
\* call is [Mid, End).
SplitDone(t) ==
  /\ RangeAt(tasks[t].R) = [Begin |-> tasks[t].Begin, End |-> tasks[t].Mid]
  /\ RangeAt(tasks[t].NewRange) = [Begin |-> tasks[t].Mid, End |-> tasks[t].End]

\* (C26) After a split, as stated: R is shrunk to [Begin, Mid), the range
\* [Mid, End) is appended, and the loop goes on refining the kept range
\* [Begin, Mid).
C26_KeptHalf ==
  [][\A t \in DOMAIN tasks :
       EndsIteration(t) =>
         /\ SplitDone(t)
         /\ tasks'[t].pc = "loop"
         /\ tasks'[t].R = tasks[t].R]_vars

\* (C26, amended) After a split R is shrunk to [Begin, Mid), the range
\* [Mid, End) is appended, and the loop goes on refining the appended range
\* [Mid, End) (R = NewRange); the kept range [Begin, Mid), whose sections all
\* equal the pivot, is not partitioned again by this call.
C26_NewRange ==
  [][\A t \in DOMAIN tasks :
       EndsIteration(t) =>
         /\ SplitDone(t)
         /\ tasks'[t].pc = "loop"
         /\ tasks'[t].R = tasks[t].NewRange
         /\ tasks'[t].R # tasks[t].R
         /\ Ranges' = Ranges]_vars

\* A call is about to partition a range of two or more sections that was
\* appended in the current sweep.
C26_Witness ==
  /\ Sweeping
  /\ \E t \in Running :
       /\ tasks[t].pc = "loop"
       /\ tasks[t].R >= End
       /\ RangeAt(tasks[t].R).End - RangeAt(tasks[t].R).Begin >= 2

\* Two relocations are equal with respect to the class ids of the slot
\* Cnt % 2: they refer to the same symbol, or to two DefinedRegular symbols
\* of equal value in input sections that have the same non-zero id there.
RelEqualAtReadSlot(ra, rb) ==
  \/ ra.sym = rb.sym
  \/ /\ ra.sym.kind = "DefinedRegular"
     /\ rb.sym.kind = "DefinedRegular"
     /\ ra.sym.Value = rb.sym.Value
     /\ SymSection(ra.sym) # 0
     /\ SymSection(rb.sym) # 0
     /\ secs[SymSection(ra.sym)].Kind = "Regular"
     /\ secs[SymSection(rb.sym)].Kind = "Regular"
     /\ GroupId[SymSection(ra.sym)][Cnt % 2] # Zero32
     /\ GroupId[SymSection(ra.sym)][Cnt % 2]
          = GroupId[SymSection(rb.sym)][Cnt % 2]

\* Two sections with equally many relocations are equal in their variable
\* parts with respect to the class ids of the slot Cnt % 2.
EqualAtReadSlot(a, b) ==
  /\ NumRelocations(a) = NumRelocations(b)
  /\ \A i \in 1 .. NumRelocations(a) :
       RelEqualAtReadSlot(secs[a].Relocs[i], secs[b].Relocs[i])

\* The sections of the range that call t was made for: those that have the
\* id of the range in the slot Cnt % 2, which no call writes.
OrigMembers(t) ==
  {s \in Collected : GroupId[s][Cnt % 2] = GroupId[Rep(t)][Cnt % 2]}

\* One sweep fully refines a range with threads, as a condition on one state.
FullyRefined ==
  (threads /\ pc = "variable") =>
    \A t \in DOMAIN tasks :
      tasks[t].pc = "done" =>
        \A a, b \in OrigMembers(t) :
          SameRange(a, b) <=> EqualAtReadSlot(a, b)

\* (C27) One sweep fully refines a range with threads.  With threads, when
\* the call segregate(R, false) made for a range has returned, two sections
\* of that range are in one range exactly when they are equal in their
\* variable parts with respect to the class ids the slot Cnt % 2 held when
\* the sweep started (and still holds).
C27_FullyRefined == []FullyRefined

\* With threads, the call made for a range has returned, having left two
\* sections of it in one range and a third in another, while another call
\* is still running.
C27_Witness ==
  /\ threads
  /\ pc = "variable"
  /\ \E t \in DOMAIN tasks :
       /\ tasks[t].pc = "done"
       /\ Running # {}
       /\ \E a, b, c \in OrigMembers(t) :
            a # b /\ SameRange(a, b) /\ ~SameRange(a, c)

\* Two sections have equal constants: flags, data (and so size), number of
\* relocations, and offset, type and addend of every paired relocation.
ConstantsEqual(a, b) ==
  /\ secs[a].Flags = secs[b].Flags
  /\ secs[a].Data = secs[b].Data
  /\ Len(secs[a].Relocs) = Len(secs[b].Relocs)
  /\ \A i \in 1 .. Len(secs[a].Relocs) :
       /\ i <= Len(secs[b].Relocs)
       /\ secs[a].Relocs[i].r_offset = secs[b].Relocs[i].r_offset
       /\ secs[a].Relocs[i].type = secs[b].Relocs[i].type
       /\ rela => secs[a].Relocs[i].addend = secs[b].Relocs[i].addend

\* The calls that are about to run a partition step on a range of two or
\* more sections, and so to evaluate the predicate.
AboutToCompare ==
  {t \in Running :
     /\ tasks[t].pc = "loop"
     /\ RangeAt(tasks[t].R).End - RangeAt(tasks[t].R).Begin > 1}

\* Predicate precondition, as a condition on one state.
Precondition ==
  pc = "variable" =>
    \A t \in AboutToCompare :
      LET pivot == At(Sections, PivotIdx(t))
      IN  \A x \in Members(tasks[t].R) :
            /\ ConstantsEqual(pivot, x)
            /\ variableEq(pivot, x) # "oob"

ScanDone == pc = "scan" /\ ~SizeLess(I, ScanLimit)

\* The maximal runs of two or more consecutive elements of Sections with one
\* id in slot 0, as ranges [Begin, End).
MaximalRuns ==
  {rg \in [Begin : 0 .. Len(Sections), End : 0 .. Len(Sections)] :
     /\ rg.End - rg.Begin >= 2
     /\ \A k \in rg.Begin .. rg.End - 1 :
          GroupId[At(Sections, k)][0] = GroupId[At(Sections, rg.Begin)][0]
     /\ rg.Begin > 0 =>
          GroupId[At(Sections, rg.Begin - 1)][0]
            # GroupId[At(Sections, rg.Begin)][0]
     /\ rg.End < Len(Sections) =>
          GroupId[At(Sections, rg.End)][0]
            # GroupId[At(Sections, rg.Begin)][0]}

\* The eligible sections whose initial id no other eligible section has.
Singletons ==
  LET E == Eligible
  IN  {s \in E : \A o \in E : o # s => getHash(o) # getHash(s)}

\* Initial ranges, as a condition on one state.
InitialRanges ==
  /\ ScanDone =>
       /\ {Ranges[k] : k \in DOMAIN Ranges} = MaximalRuns
       /\ Len(Ranges) = Cardinality(MaximalRuns)
  /\ \A s \in Singletons :
       /\ \A r \in RangeIds :
            \A k \in Interval(r) : At(Sections, k) # s
       /\ Repl[s] = s
       /\ \A o \in SecIds : o # s => Repl[o] # s

\* (C29) Initial ranges.  When the scan loop has ended, the range list holds
\* exactly the maximal runs of two or more consecutive sections with one id
\* in slot 0, each once.  A section whose initial id no other section has is
\* in no range, ever; it is never folded and never the representative of
\* another section.
C29_InitialRanges == []InitialRanges

\* The scan loop has ended on an input with a run of two or more sections
\* and a section that shares its initial id with no other.
C29_Witness ==
  /\ ScanDone
  /\ Len(Ranges) >= 1
  /\ Singletons # {}

\* A symbol that is not a DefinedRegular symbol in an eligible input section:
\* of another kind, absolute, or in a section that is not eligible.
NonSectionTarget(sym) ==
  \/ sym.kind # "DefinedRegular"
  \/ sym.Section = 0
  \/ sym.Section \notin Eligible

\* (C30) Non-section targets.  Whenever a partition step of a variable sweep
\* is about to compare the pivot with a section of its range, a pair of
\* relocations with two distinct symbols of which one is not a symbol in an
\* eligible section compares unequal, a pair with the same symbol compares
\* equal, and the comparison does not abort.
C30_NonSectionTargets ==
  pc = "variable" =>
    \A t \in AboutToCompare :
      LET pivot == At(Sections, PivotIdx(t))
      IN  \A x \in Members(tasks[t].R) :
            \A i \in 1 .. NumRelocations(pivot) :
              i <= NumRelocations(x) =>
                LET ra == secs[pivot].Relocs[i]
                    rb == secs[x].Relocs[i]
                IN  /\ ra.sym = rb.sym => variableEqRel(ra, rb) = "true"
                    /\ (/\ ra.sym # rb.sym
                        /\ NonSectionTarget(ra.sym) \/ NonSectionTarget(rb.sym))
                         => variableEqRel(ra, rb) = "false"

\* A DefinedRegular symbol in an input section (its Section is not null).
InSection(sym) == sym.kind = "DefinedRegular" /\ sym.Section # 0

\* The relocations of the sections of Sections.
CollectedRelocs ==
  {secs[s].Relocs[i] : <<s, i>> \in
     {p \in Collected \X (1 .. 2) : p[2] <= NumRelocations(p[1])}}

\* Zero is the id of the ineligible sections and of no other: both slots of an
\* eligible section are non-zero, both slots of an ineligible one are zero.
ZeroMeansIneligible ==
  LET E == Eligible
  IN  \A s \in SecIds : \A k \in 0 .. 1 :
        (GroupId[s][k] = Zero32) <=> (s \notin E)

\* The predicate on a pair of distinct symbols in input sections of which one
\* is in an ineligible section yields unequal.
IneligibleUnequal ==
  LET E == Eligible
      InSec == {r \in CollectedRelocs : InSection(r.sym)}
      Inel == {r \in InSec : r.sym.Section \notin E}
  IN  \A ra \in Inel : \A rb \in InSec :
        ra.sym # rb.sym =>
          /\ variableEqRel(ra, rb) = "false"
          /\ variableEqRel(rb, ra) = "false"

\* (C31) Class id zero means ineligible, as stated: in every reachable state
\* both slots of every eligible section are non-zero and both slots of every
\* ineligible section are zero.
C31_ZeroAlways == []ZeroMeansIneligible

\* (C31) Class id zero means ineligible.  In every reachable state from the
\* end of the hash loop on, both class-id slots of every eligible section are
\* non-zero and both slots of every ineligible section are zero, and
\* equalsVariable yields unequal for a pair of distinct symbols in input
\* sections of which one is in an ineligible section.
C31_ZeroMeansIneligible ==
  [](pc \notin {"collect", "hash"} =>
       ZeroMeansIneligible /\ IneligibleUnequal)

\* A variable sweep on an input in which two sections refer to two distinct
\* symbols of equal value in one ineligible section.
C31_Witness ==
  /\ pc = "variable"
  /\ \E ra, rb \in CollectedRelocs :
       /\ ra.sym # rb.sym
       /\ InSection(ra.sym) /\ InSection(rb.sym)
       /\ ra.sym.Value = rb.sym.Value
       /\ ra.sym.Section \notin Eligible
       /\ rb.sym.Section \notin Eligible

\* The partitions of a set.
RECURSIVE PartitionsOf(_)
PartitionsOf(S) ==
  IF S = {} THEN {{}}
  ELSE LET x == CHOOSE y \in S : TRUE
       IN  UNION {{Q \cup {{x}}} \cup {(Q \ {B}) \cup {B \cup {x}} : B \in Q} :
                    Q \in PartitionsOf(S \ {x})}

\* Every block of P holds sections of equal constants only.
RefinesConstant(P) ==
  \A B \in P : \A a, b \in B : equalsConstant(a, b)

\* P is stable: the paired relocations of two sections of one block refer to
\* the same symbol or to equal-valued DefinedRegular symbols in sections of
\* one block.
StableUnder(P) ==
  \A B \in P : \A a, b \in B : PairAgrees(P, a, b)

\* Every block of P lies within a block of Q.
Finer(P, Q) == \A B \in P : \E C \in Q : B \subseteq C

\* Maximal folding, as a condition on one state.
MaximalFolding ==
  Done =>
    /\ RefinesConstant(FinalPartition)
    /\ StableUnder(FinalPartition)
    /\ \A P \in PartitionsOf(Eligible) :
         (RefinesConstant(P) /\ StableUnder(P)) => Finer(P, FinalPartition)

\* (C32) Maximal folding.  When run() has returned, the final partition of
\* the eligible sections refines equality of constants, is stable under the
\* variable predicate, and every partition with these two properties is finer
\* than it: two sections of equal constants whose paired relocations refer,
\* recursively, to the same symbol or to equal-valued DefinedRegular symbols
\* in sections of one class are in one final class.
C32_MaximalFolding == []MaximalFolding

\* run() has returned and has both folded and kept apart sections of equal
\* constants: a class of two or more sections, and two sections of equal
\* constants in different classes.
C32_Witness ==
  /\ Done
  /\ \E B \in FinalPartition : Cardinality(B) >= 2
  /\ \E a, b \in Eligible :
       /\ equalsConstant(a, b)
       /\ ~SameClass(a, b)
  /\ \E P \in PartitionsOf(Eligible) :
       /\ P # FinalPartition
       /\ RefinesConstant(P)
       /\ StableUnder(P)

\* Two paired relocations agree under a partition P of the eligible sections
\* as the variable predicate of a threaded sweep that starts from P sees them:
\* the same symbol, or two DefinedRegular symbols of equal value whose
\* sections, through their replaceable slots, are in one block of P.
AgreeNow(P, ra, rb) ==
  \/ ra.sym = rb.sym
  \/ /\ InSection(ra.sym)
     /\ InSection(rb.sym)
     /\ ra.sym.Value = rb.sym.Value
     /\ \E B \in P : SymSection(ra.sym) \in B /\ SymSection(rb.sym) \in B

\* One threaded sweep from P: every block split by agreement under P.
RefineNow(P) ==
  UNION {{{b \in B : \A i \in 1 .. NumRelocations(a) :
                       AgreeNow(P, secs[a].Relocs[i], secs[b].Relocs[i])} :
            a \in B} : B \in P}

\* The partition of the threaded run after the constant pass and k variable
\* sweeps.
RECURSIVE ThreadedAfter(_)
ThreadedAfter(k) ==
  IF k <= 0 THEN ConstClasses ELSE RefineNow(ThreadedAfter(k - 1))

\* The number of variable sweeps of the threaded run from P on, the one that
\* adds no range included.
RECURSIVE SweepsFrom(_, _)
SweepsFrom(P, k) ==
  IF RefineNow(P) = P THEN k ELSE SweepsFrom(RefineNow(P), k + 1)

\* The iteration count the threaded run reports: the constant pass and the
\* variable sweeps.
ThreadedCnt == 1 + SweepsFrom(ConstClasses, 1)

\* run() is between two passes, or has left the loop and not yet merged.
AfterSweep == pc = "sweep" \/ (pc = "merge" /\ I = 0)

\* Fast path, as a condition on one state.
FastPath ==
  AfterSweep =>
    LET T == ThreadedAfter(Cnt - 1)
    IN  /\ threads => FinalPartition = T
        /\ ~threads => Finer(FinalPartition, T)
        /\ pc = "merge" =>
             IF threads THEN Cnt = ThreadedCnt ELSE Cnt <= ThreadedCnt

\* (C33) Fast path never costs sweeps.  After the constant pass and after
\* every variable sweep the partition of the threaded run is the one that as
\* many threaded sweeps give on this input, and the partition of the
\* single-thread run is a refinement of it; the iteration count Cnt the
\* threaded run reports is the count of those sweeps, and the count the
\* single-thread run reports is less than or equal to it.
C33_FastPath == []FastPath

\* A single-thread run leaves the loop with a smaller count than the threaded
\* run reports on the same input.
C33_Witness ==
  /\ ~threads
  /\ pc = "merge"
  /\ I = 0
  /\ Cnt < ThreadedCnt

\* (C34) Bounded range scan.  For every number n of eligible sections, the
\* index I of the scan loop never exceeds n, and when n <= 1 the scan ends
\* with an empty range list, run() reaches its end and no replaceable slot
\* is written.
C34_BoundedScan ==
  /\ pc = "scan" =>
       /\ I >= 0
       /\ I <= Len(Sections)
  /\ (pc \notin {"collect", "hash", "sort"} /\ Len(Sections) <= 1) =>
       /\ Ranges = <<>>
       /\ Repl = [s \in SecIds |-> s]

\* The capacity of the range list: Ranges.reserve(Sections.size()).
Capacity == Len(Sections)

\* Range-list capacity, as a condition on one state: from the scan on, the
\* range list is within its capacity, and the ranges that the calls and the
\* sweep driver point at are elements of it.
WithinCapacity ==
  pc \notin {"collect", "hash", "sort"} =>
    /\ Len(Ranges) <= Capacity
    /\ Sweeping =>
         /\ End <= Len(Ranges)
         /\ \A t \in Running :
              /\ tasks[t].R < Len(Ranges)
              /\ tasks[t].pc \in {"update", "write"} =>
                   tasks[t].NewRange < Len(Ranges)

\* (C35) Range-list capacity.  In every reachable state, under every
\* interleaving, the number of ranges is at most the number of eligible
\* sections, the capacity reserved before the first pass: no append grows the
\* list beyond it, and every range a call or the sweep driver points at is an
\* element of the list.
C35_Capacity == []WithinCapacity

\* With threads, two calls have each appended a range and the list is full:
\* as many ranges as sections.
C35_Witness ==
  /\ threads
  /\ Sweeping
  /\ Cardinality(Splitting) >= 2
  /\ Len(Ranges) = Capacity

====
